---- MODULE Spec2Model ----
(***************************************************************************)
(* Model of the IQR search web module (IqrSearch in iqr_search.py): the    *)
(* request handlers, the get-or-create of the per-user IqrSession through  *)
(* the IqrController, and the two levels of locking.                       *)
(*                                                                         *)
(* IqrSession, IqrController and the descriptor index live in smqtk.iqr    *)
(* and smqtk.representation; the handlers here only call them.  Their      *)
(* behaviour is written from the design document (the Session* operators). *)
(***************************************************************************)
EXTENDS Integers, FiniteSets, Sequences, TLC

\* ------------------------------------------------------------------ bounds

\* Total number of HTTP requests the request threads issue (Spec).
MaxRequests == 3
\* Number of HTTP requests a single thread serves one after another (SeqSpec).
MaxSeqRequests == 6
\* Total number of HTTP requests the request threads issue (LiveSpec).
MaxLiveRequests == 3
\* Total number of HTTP requests the request threads issue (ClientSpec).
MaxClientRequests == 5
\* Largest number of identifiers one adjudicate request carries (all lists).
MaxAdjIds == 2
\* pos_seed_neighbors as configured for the model.
PosSeedNeighbors == 1

\* Request-handling threads of the web server.
Threads == {"t1", "t2"}
\* Values of flask.session.sid (the external session key).
Keys == {"k1", "k2"}
\* Identifiers of the descriptors of the indexed corpus.
Corpus == {"a", "b"}
\* Identifiers (content hashes) of files a user can upload: a file that is also
\* in the corpus, and one that is not.
Uploads == {"a", "u"}
\* Relevancy probabilities the ranker can hand out (in tenths).
Probs == {4, 9}

\* Values of the i and of the j argument of an ordered-results request: before
\* the start, inside and past the end of a result of up to two entries.
SliceFrom == {-1, 0, 1, 2}
SliceTo == {-1, 1, 3}

Ids == Corpus \cup Uploads
NoThread == "none"

VARIABLES
    pc,          \* per thread: position in its current request
    req,         \* per thread: the request being handled
    resp,        \* per thread: what the handler answers
    nreq,        \* number of requests issued so far
    ctrlOwner,   \* holder of the IqrController lock
    sessOwner,   \* per session: holder of the IqrSession lock
    sessions,    \* IqrController: sid -> number of the IqrSession object
                 \* registered under it (0: none); objects built for one sid
                 \* are numbered 1, 2, ... in order of construction
    got,         \* per thread: session object get_current_iqr_session returned
    pos,         \* per session: positive_descriptors (by uuid)
    neg,         \* per session: negative_descriptors (by uuid)
    wi,          \* per session: working_index (uuids)
    results,     \* per session: results, as a set of <<uuid, probability>>
    workDirs,    \* keys of IqrSearch._iqr_work_dirs
    exData,      \* IqrSearch._iqr_example_data: session uuid -> uuids
    exPos        \* IqrSearch._iqr_example_pos_descr: session uuid -> uuids

vars == <<pc, req, resp, nreq, ctrlOwner, sessOwner, sessions,
          got, pos, neg, wi, results, workDirs, exData, exPos>>

ctrlVars == <<ctrlOwner, sessions, workDirs>>
sessVars == <<pos, neg, wi, results>>
mapVars == <<exData, exPos>>

\* ---------------------------------------------------------------- requests

Ops == {"info", "state", "check", "preview", "ingest", "initialize",
        "example_adj", "index_adj", "adjudicate", "refine", "ordered",
        "reset", "random"}

NoIds == {}

BaseReq(op, sid) ==
    [op |-> op, sid |-> sid, addPos |-> NoIds, addNeg |-> NoIds,
     remPos |-> NoIds, remNeg |-> NoIds, uid |-> "a", phase |-> 1,
     i |-> 0, hasJ |-> FALSE, j |-> 0]

NoReq == BaseReq("none", "k1")

NoResp == [status |-> "none"]

\* The four lists an adjudicate request can carry.
AdjLists ==
    {l \in [addPos : SUBSET Corpus, addNeg : SUBSET Corpus,
            remPos : SUBSET Corpus, remNeg : SUBSET Corpus] :
        Cardinality(l.addPos) + Cardinality(l.addNeg)
          + Cardinality(l.remPos) + Cardinality(l.remNeg) <= MaxAdjIds}

NoSession == [sid |-> "none", gen |-> 0]

\* ------------------------------------------------------------ construction

Init ==
    /\ pc = [t \in Threads |-> "idle"]
    /\ req = [t \in Threads |-> NoReq]
    /\ resp = [t \in Threads |-> NoResp]
    /\ nreq = 0
    /\ ctrlOwner = NoThread
    /\ sessOwner = [k \in Keys |-> NoThread]
    /\ sessions = [k \in Keys |-> 0]
    /\ got = [t \in Threads |-> NoSession]
    /\ pos = [k \in Keys |-> {}]
    /\ neg = [k \in Keys |-> {}]
    /\ wi = [k \in Keys |-> {}]
    /\ results = [k \in Keys |-> {}]
    /\ workDirs = {}
    /\ exData = <<>>
    /\ exPos = <<>>

\* A fresh IqrSession: no adjudications, empty working index, no results.
FreshSession(k) ==
    /\ pos' = [pos EXCEPT ![k] = {}]
    /\ neg' = [neg EXCEPT ![k] = {}]
    /\ wi' = [wi EXCEPT ![k] = {}]
    /\ results' = [results EXCEPT ![k] = {}]

\* ------------------------------------------------ get_current_iqr_session

\* Every handler that uses a session does so inside
\* "with self.get_current_iqr_session() as iqrs", which takes the session's
\* lock for the length of the block.
HandlerLocksSession_RefineBare(op) == op # "refine"

HandlerLocksSession_RandomBare(op) == op # "random"

HandlerLocksSession(op) == TRUE

\* "if not self._iqr_controller.has_session_uuid(sid)"
NeedsNewSession(sid) == sessions[sid] = 0

\* "return self._iqr_controller.get_session(sid)": the session registered
\* under the caller's sid.
GetSession_Shared(sid) == [sid |-> "k1", gen |-> sessions["k1"]]

GetSession(sid) == [sid |-> sid, gen |-> sessions[sid]]

\* Holder of the controller lock once the "with self._iqr_controller" block of
\* thread t is left (by return or by an exception).
ControllerOwnerAfter_Kept(t) == t

ControllerOwnerAfter(t) == NoThread

\* self._data_set.has_uuid(uid): the data set holds the indexed corpus.
InDataSet(uid) == uid \in Corpus

\* IqrSearch._saliency_descr_flag: the descriptor generator makes saliency
\* maps, so a data preview goes on to the saliency block.
SaliencyDescrFlag == TRUE

\* The requests a client can send to handler op.  Which handler runs and with
\* which arguments is fixed when the request arrives; nothing reads either
\* before the handler's with block, so the model draws the handler when the
\* block is entered and the arguments when its body runs.
RequestsOf(op, sid) ==
    CASE op \in {"example_adj", "index_adj"} ->
            {[BaseReq(op, sid) EXCEPT !.uid = u] : u \in Ids}
      [] op = "ingest" ->
            {[BaseReq(op, sid) EXCEPT !.uid = u] : u \in Uploads}
      [] op = "preview" ->
            {[BaseReq(op, sid) EXCEPT !.uid = u] : u \in Ids \ Corpus}
      [] op = "adjudicate" ->
            {[BaseReq(op, sid) EXCEPT !.addPos = l.addPos,
                 !.addNeg = l.addNeg, !.remPos = l.remPos,
                 !.remNeg = l.remNeg] : l \in AdjLists}
      [] op = "ordered" ->
            {[BaseReq(op, sid) EXCEPT !.i = i] : i \in SliceFrom}
              \cup {[BaseReq(op, sid) EXCEPT !.i = i, !.hasJ = TRUE, !.j = j] :
                       i \in SliceFrom, j \in SliceTo}
      [] OTHER -> {BaseReq(op, sid)}

\* A request arrives on an idle thread.  A data preview for a uid of the data
\* set skips the example-data block (phase 1) and starts at the saliency block.
StartRequest(t, max) ==
    /\ pc[t] = "idle"
    /\ nreq < max
    /\ \E sid \in Keys :
         \/ req' = [req EXCEPT ![t] = BaseReq("pending", sid)]
         \/ /\ SaliencyDescrFlag
            /\ \E u \in Corpus :
                 req' = [req EXCEPT ![t] =
                            [BaseReq("preview", sid) EXCEPT !.uid = u,
                                                            !.phase = 2]]
    /\ pc' = [pc EXCEPT ![t] = "ctrl_wait"]
    /\ nreq' = nreq + 1
    /\ UNCHANGED <<resp, sessOwner, got>>
    /\ UNCHANGED <<ctrlVars, sessVars, mapVars>>

Start(t) == StartRequest(t, MaxRequests)

\* "with self._iqr_controller:" waits until no other thread is inside the
\* controller's block.
ControllerLockFree_NoLock(t) == TRUE

ControllerLockFree(t) == ctrlOwner = NoThread

CtrlAcquire(t) ==
    /\ pc[t] = "ctrl_wait"
    /\ ControllerLockFree(t)
    /\ ctrlOwner' = t
    /\ pc' = [pc EXCEPT ![t] = "ctrl_check"]
    /\ UNCHANGED <<req, resp, nreq, sessOwner, sessions, got,
                   workDirs>>
    /\ UNCHANGED <<sessVars, mapVars>>

\* "if not self._iqr_controller.has_session_uuid(sid):"
CtrlLookup(t) ==
    /\ pc[t] = "ctrl_check"
    /\ pc' = [pc EXCEPT ![t] = IF NeedsNewSession(req[t].sid)
                               THEN "ctrl_create" ELSE "ctrl_return"]
    /\ UNCHANGED <<req, resp, nreq, sessOwner, got>>
    /\ UNCHANGED <<ctrlVars, sessVars, mapVars>>

\* iqr_sess = IqrSession(..., sid); self._iqr_controller.add_session(iqr_sess)
CtrlCreate(t) ==
    /\ pc[t] = "ctrl_create"
    /\ sessions' = [sessions EXCEPT ![req[t].sid] = @ + 1]
    /\ FreshSession(req[t].sid)
    /\ pc' = [pc EXCEPT ![t] = "ctrl_workdir"]
    /\ UNCHANGED <<req, resp, nreq, ctrlOwner, sessOwner, got, workDirs,
                   mapVars>>

\* self._iqr_work_dirs[uuid] = ...; safe_create_dir(...), which creates the
\* directory or raises when the file system refuses.
CtrlWorkDir(t) ==
    /\ pc[t] = "ctrl_workdir"
    /\ workDirs' = workDirs \cup {req[t].sid}
    /\ \/ /\ pc' = [pc EXCEPT ![t] = "ctrl_maps"]
          /\ UNCHANGED <<ctrlOwner, resp>>
       \/ /\ pc' = [pc EXCEPT ![t] = "exit"]
          /\ ctrlOwner' = ControllerOwnerAfter(t)
          /\ resp' = [resp EXCEPT ![t] = [status |-> "raise"]]
    /\ UNCHANGED <<req, nreq, sessOwner, sessions, got>>
    /\ UNCHANGED <<sessVars, mapVars>>

\* self._iqr_example_data[uuid] = {}; self._iqr_example_pos_descr[uuid] = {}
CtrlMaps(t) ==
    /\ pc[t] = "ctrl_maps"
    /\ exData' = (req[t].sid :> {}) @@ exData
    /\ exPos' = (req[t].sid :> {}) @@ exPos
    /\ pc' = [pc EXCEPT ![t] = "ctrl_return"]
    /\ UNCHANGED <<req, resp, nreq, sessOwner, got>>
    /\ UNCHANGED <<ctrlVars, sessVars>>

\* return self._iqr_controller.get_session(sid), leaving the with block.
CtrlReturn(t) ==
    /\ pc[t] = "ctrl_return"
    /\ got' = [got EXCEPT ![t] = GetSession(req[t].sid)]
    /\ ctrlOwner' = ControllerOwnerAfter(t)
    /\ pc' = [pc EXCEPT ![t] = "sess_wait"]
    /\ UNCHANGED <<req, resp, nreq, sessOwner, sessions,
                   workDirs>>
    /\ UNCHANGED <<sessVars, mapVars>>

\* "with <session> as iqrs:" IqrSession.__enter__ takes the session's lock.
SessAcquire(t) ==
    /\ pc[t] = "sess_wait"
    /\ \E op \in IF req[t].op = "pending" THEN Ops ELSE {req[t].op} :
         /\ req' = [req EXCEPT ![t].op = op]
         /\ LET s == got[t].sid IN
            IF HandlerLocksSession(op)
            THEN /\ sessOwner[s] = NoThread
                 /\ sessOwner' = [sessOwner EXCEPT ![s] = t]
            ELSE UNCHANGED sessOwner
    /\ pc' = [pc EXCEPT ![t] = "cs"]
    /\ UNCHANGED <<resp, nreq, got>>
    /\ UNCHANGED <<ctrlVars, sessVars, mapVars>>

\* ------------------------------------------------- IqrSession operations

\* IqrSession.adjudicate(new_positives, new_negatives, un_positives,
\* un_negatives): removals first, then the positive additions (each taken out
\* of the negatives), then the negative additions (each taken out of the
\* positives).
SessionAdjudicate(p, n, newPos, newNeg, unPos, unNeg) ==
    LET p1 == p \ unPos
        n1 == n \ unNeg
        p2 == p1 \cup newPos
        n2 == n1 \ newPos
        n3 == n2 \cup newNeg
        p3 == p2 \ newNeg
    IN  [pos |-> p3, neg |-> n3]

\* Nearest-neighbour index: the corpus in order of distance from each
\* descriptor (a descriptor of the corpus is its own nearest neighbour; the
\* upload "u" has the vector of "b", which is therefore its nearest).
NNOrder ==
    [d \in Ids |-> CASE d = "a" -> <<"a", "b">>
                     [] d = "b" -> <<"b", "a">>
                     [] OTHER   -> <<"b", "a">>]

\* nn_index.nn(d, n): the n nearest neighbours of d.
Neighbors_OneMore(d, n) ==
    {NNOrder[d][i] : i \in {j \in DOMAIN NNOrder[d] : j <= n + 1}}

Neighbors(d, n) ==
    {NNOrder[d][i] : i \in {j \in DOMAIN NNOrder[d] : j <= n}}

\* IqrSession.update_working_index: the union of the seed neighbours of every
\* positive.
SeededIndex(p) == UNION {Neighbors(d, PosSeedNeighbors) : d \in p}

\* RelevancyIndex.rank: some probability for every descriptor of the index.
Rankings(w) == {{<<d, f[d]>> : d \in w} : f \in [w -> Probs]}

\* ----------------------------------------------------------- the handlers

\* The session the handler of thread t works on (iqrs), by iqrs.uuid; the
\* session is built with the sid as its uuid.
Sess(t) == got[t].sid

InBody(t, op) == pc[t] = "cs" /\ req[t].op = op

\* The handler's block ends with the answer r (a return or an exception
\* leaving the with block).
AnswerTo(t, rq, r) ==
    /\ pc' = [pc EXCEPT ![t] = "exit"]
    /\ req' = [req EXCEPT ![t] = rq]
    /\ resp' = [resp EXCEPT ![t] = r]
    /\ UNCHANGED <<nreq, sessOwner, got, ctrlVars>>

Answer(t, r) == AnswerTo(t, req[t], r)

\* The arguments the request of thread t can carry.
Args(t) == RequestsOf(req[t].op, req[t].sid)

SetAdjudication(k, a) ==
    /\ pos' = [pos EXCEPT ![k] = a.pos]
    /\ neg' = [neg EXCEPT ![k] = a.neg]

Raise == [status |-> "raise"]

\* iqr_session_info
Info(t) ==
    /\ InBody(t, "info")
    /\ LET k == Sess(t) IN
       IF k \in DOMAIN exPos
       THEN Answer(t, [status |-> "ok", uuid |-> k,
                       positive_uids |-> pos[k], negative_uids |-> neg[k],
                       ex_pos |-> exPos[k], initialized |-> wi[k] # {},
                       index_size |-> Cardinality(wi[k])])
       ELSE Answer(t, Raise)
    /\ UNCHANGED <<sessVars, mapVars>>

\* check_current_iqr_session
Check(t) ==
    /\ InBody(t, "check")
    /\ Answer(t, [status |-> "ok"])
    /\ UNCHANGED <<sessVars, mapVars>>

\* get_example_adjudication
ExampleAdjudication(t) ==
    /\ InBody(t, "example_adj")
    /\ \E rq \in Args(t) :
       LET k == Sess(t) IN
       IF k \in DOMAIN exPos
       THEN AnswerTo(t, rq, [status |-> "ok", is_pos |-> rq.uid \in exPos[k],
                             is_neg |-> FALSE])
       ELSE AnswerTo(t, rq, Raise)
    /\ UNCHANGED <<sessVars, mapVars>>

\* get_index_adjudication
IndexAdjudication(t) ==
    /\ InBody(t, "index_adj")
    /\ \E rq \in Args(t) :
       LET k == Sess(t) IN
       AnswerTo(t, rq, [status |-> "ok", is_pos |-> rq.uid \in pos[k],
                        is_neg |-> rq.uid \in neg[k]])
    /\ UNCHANGED <<sessVars, mapVars>>

\* adjudicate, lines 625-633: every list is resolved through the working index
\* (get_many_descriptors raises on an id it does not hold) before
\* iqrs.adjudicate is called with (pos_to_add, neg_to_add, pos_to_remove,
\* neg_to_remove).  The outcome for a session with positives p, negatives n,
\* working index w and results r.
AdjudicateOutcome_SwappedArgs(p, n, w, r, rq) ==
    IF (rq.addPos \cup rq.addNeg \cup rq.remPos \cup rq.remNeg) \subseteq w
    THEN [status |-> "ok", wi |-> w, results |-> r,
          adj |-> SessionAdjudicate(p, n, rq.addPos, rq.remPos,
                                    rq.addNeg, rq.remNeg)]
    ELSE [status |-> "raise", wi |-> w, results |-> r,
          adj |-> [pos |-> p, neg |-> n]]

AdjudicateOutcome_DropsResults(p, n, w, r, rq) ==
    IF (rq.addPos \cup rq.addNeg \cup rq.remPos \cup rq.remNeg) \subseteq w
    THEN [status |-> "ok", wi |-> w, results |-> {},
          adj |-> SessionAdjudicate(p, n, rq.addPos, rq.addNeg,
                                    rq.remPos, rq.remNeg)]
    ELSE [status |-> "raise", wi |-> w, results |-> r,
          adj |-> [pos |-> p, neg |-> n]]

AdjudicateOutcome(p, n, w, r, rq) ==
    IF (rq.addPos \cup rq.addNeg \cup rq.remPos \cup rq.remNeg) \subseteq w
    THEN [status |-> "ok", wi |-> w, results |-> r,
          adj |-> SessionAdjudicate(p, n, rq.addPos, rq.addNeg,
                                    rq.remPos, rq.remNeg)]
    ELSE [status |-> "raise", wi |-> w, results |-> r,
          adj |-> [pos |-> p, neg |-> n]]

Adjudicate(t) ==
    /\ InBody(t, "adjudicate")
    /\ \E rq \in Args(t) :
       LET k == Sess(t)
           o == AdjudicateOutcome(pos[k], neg[k], wi[k], results[k], rq)
       IN  /\ SetAdjudication(k, o.adj)
           /\ wi' = [wi EXCEPT ![k] = o.wi]
           /\ results' = [results EXCEPT ![k] = o.results]
           /\ AnswerTo(t, rq, [status |-> o.status])
    /\ UNCHANGED mapVars

\* iqr_ingest_file, line 515: iqrs.adjudicate((upload_descr,)), the uploaded
\* descriptor as the only new positive.
IngestAdjudication_Direct(p, n, u) == [pos |-> p \cup {u}, neg |-> n]

IngestAdjudication(p, n, u) == SessionAdjudicate(p, n, {u}, {}, {}, {})

\* iqr_ingest_file: the upload is moved to the session's work directory and
\* recorded as example data; compute_descriptor may raise ValueError, which is
\* answered with "Input Error" (400).
Ingest(t) ==
    /\ InBody(t, "ingest")
    /\ \E rq \in Args(t) :
       LET k == Sess(t)
           u == rq.uid
       IN  IF k \notin workDirs \/ k \notin DOMAIN exData
                \/ k \notin DOMAIN exPos
           THEN /\ AnswerTo(t, rq, Raise)
                /\ UNCHANGED <<sessVars, mapVars>>
           ELSE /\ exData' = [exData EXCEPT ![k] = @ \cup {u}]
                /\ \/ /\ AnswerTo(t, rq, [status |-> "input_error"])
                      /\ UNCHANGED <<sessVars, exPos>>
                   \/ /\ exPos' = [exPos EXCEPT ![k] = @ \cup {u}]
                      /\ SetAdjudication(k,
                            IngestAdjudication(pos[k], neg[k], u))
                      /\ AnswerTo(t, rq, [status |-> "ok", uuid |-> u])
                      /\ UNCHANGED <<wi, results>>

\* iqr_initialize, lines 527-538: iqrs.update_working_index(self._nn_index)
\* inside try/except.  The outcomes for a session with positives p and working
\* index w: the index seeded from p, or, without positives or when the
\* nearest-neighbour index cannot be queried, the exception answered as a
\* failure with the index as it was.
InitializeOutcomes_Merges(p, w) ==
    (IF p # {} THEN {[status |-> "ok", wi |-> w \cup SeededIndex(p)]} ELSE {})
        \cup {[status |-> "fail", wi |-> w]}

InitializeOutcomes_PartialOnFailure(p, w) ==
    (IF p # {} THEN {[status |-> "ok", wi |-> SeededIndex(p)]} ELSE {})
        \cup {[status |-> "fail", wi |-> w]}
        \cup {[status |-> "fail", wi |-> Neighbors(d, PosSeedNeighbors)] :
                 d \in p}

InitializeOutcomes(p, w) ==
    (IF p # {} THEN {[status |-> "ok", wi |-> SeededIndex(p)]} ELSE {})
        \cup {[status |-> "fail", wi |-> w]}

Initialize(t) ==
    /\ InBody(t, "initialize")
    /\ LET k == Sess(t) IN
       \E o \in InitializeOutcomes(pos[k], wi[k]) :
          /\ wi' = [wi EXCEPT ![k] = o.wi]
          /\ Answer(t, [status |-> o.status])
    /\ UNCHANGED <<pos, neg, results, mapVars>>

\* iqr_refine, lines 654-665: iqrs.refine() inside try/except.  The outcomes
\* for a session with positives p, working index w and results r: a ranking of
\* w, or, without positives, with an empty working index or when the ranker
\* raises, the exception answered as a failure with the results as they were.
RefineOutcomes_ClearsOnFailure(p, w, r) ==
    (IF p # {} /\ w # {}
     THEN {[status |-> "ok", results |-> x] : x \in Rankings(w)} ELSE {})
        \cup {[status |-> "fail", results |-> {}]}

RefineOutcomes_NeedsNoIndex(p, w, r) ==
    (IF p # {}
     THEN {[status |-> "ok", results |-> x] : x \in Rankings(w)} ELSE {})
        \cup {[status |-> "fail", results |-> r]}

RefineOutcomes(p, w, r) ==
    (IF p # {} /\ w # {}
     THEN {[status |-> "ok", results |-> x] : x \in Rankings(w)} ELSE {})
        \cup {[status |-> "fail", results |-> r]}

Refine(t) ==
    /\ InBody(t, "refine")
    /\ LET k == Sess(t) IN
       \E o \in RefineOutcomes(pos[k], wi[k], results[k]) :
          /\ results' = [results EXCEPT ![k] = o.results]
          /\ Answer(t, [status |-> o.status])
    /\ UNCHANGED <<pos, neg, wi, mapVars>>

\* reset_iqr_session, lines 707-708: the session's entry of an example map m
\* after m[iqrs.uuid].clear().
ClearedExamples_Kept(m, k) == m

ClearedExamples(m, k) == [m EXCEPT ![k] = {}]

\* reset_iqr_session: iqrs.reset(), then the work directory is removed and
\* made again (the file system may refuse), then the example maps are cleared.
Reset(t) ==
    /\ InBody(t, "reset")
    /\ LET k == Sess(t) IN
       /\ FreshSession(k)
       /\ IF k \notin workDirs \/ k \notin DOMAIN exData
             \/ k \notin DOMAIN exPos
          THEN /\ Answer(t, Raise)
               /\ UNCHANGED mapVars
          ELSE \/ /\ Answer(t, Raise)
                  /\ UNCHANGED mapVars
               \/ /\ exData' = ClearedExamples(exData, k)
                  /\ exPos' = ClearedExamples(exPos, k)
                  /\ Answer(t, [status |-> "ok"])

\* d.vector(): the uploaded copy of a corpus file has the corpus descriptor's
\* vector; two different items may still share one vector.
Vector(d) == IF d = "u" THEN "v_b" ELSE IF d = "a" THEN "v_a" ELSE "v_b"

\* iqr_session_state, lines 316-323: pos_elements, the set of the vectors of
\* the positive user examples ex and of the positively adjudicated p.
PosElements_AdjudicatedOnly(ex, p) == {Vector(d) : d \in p}

PosElements(ex, p) == {Vector(d) : d \in ex} \cup {Vector(d) : d \in p}

\* iqr_session_state (get_iqr_state)
State(t) ==
    /\ InBody(t, "state")
    /\ LET k == Sess(t) IN
       IF k \in DOMAIN exPos
       THEN Answer(t, [status |-> "ok", name |-> k,
                       pos |-> PosElements(exPos[k], pos[k]),
                       neg |-> {Vector(d) : d \in neg[k]}])
       ELSE Answer(t, Raise)
    /\ UNCHANGED <<sessVars, mapVars>>

\* Order of identifiers (strings compare as strings).
IdRank(d) == CASE d = "a" -> 1 [] d = "b" -> 2 [] OTHER -> 3

\* x comes before y in IqrSession.ordered_results(): higher probability first,
\* equal probabilities by ascending identifier.
Before_TiesDescending(x, y) ==
    \/ x[2] > y[2]
    \/ x[2] = y[2] /\ IdRank(x[1]) > IdRank(y[1])

Before(x, y) ==
    \/ x[2] > y[2]
    \/ x[2] = y[2] /\ IdRank(x[1]) < IdRank(y[1])

RECURSIVE OrderedResults(_)
OrderedResults(r) ==
    IF r = {} THEN <<>>
    ELSE LET first == CHOOSE x \in r : \A y \in r \ {x} : Before(x, y)
         IN  <<first>> \o OrderedResults(r \ {first})

\* A bound x of a slice of a sequence of length n: a negative bound counts from
\* the end, and every bound is brought into 0..n.
SliceIndex(x, n) ==
    IF x < 0 THEN (IF n + x < 0 THEN 0 ELSE n + x)
             ELSE (IF x > n THEN n ELSE x)

\* s[i:j]
Slice_Inclusive(s, i, j) ==
    LET lo == SliceIndex(i, Len(s))
        hi == SliceIndex(j + 1, Len(s))
    IN  IF lo < hi THEN SubSeq(s, lo + 1, hi) ELSE <<>>

Slice(s, i, j) ==
    LET lo == SliceIndex(i, Len(s))
        hi == SliceIndex(j, Len(s))
    IN  IF lo < hi THEN SubSeq(s, lo + 1, hi) ELSE <<>>

\* get_ordered_results: i defaults to 0 (the request record's i), and j to
\* "len(iqrs.results) if iqrs.results else 0".
Ordered(t) ==
    /\ InBody(t, "ordered")
    /\ \E rq \in Args(t) :
       LET r == results[Sess(t)]
           j == IF rq.hasJ THEN rq.j ELSE Cardinality(r)
       IN  AnswerTo(t, rq, [status |-> "ok",
                            results |-> Slice(OrderedResults(r), rq.i, j)])
    /\ UNCHANGED <<sessVars, mapVars>>

\* The orders random.shuffle can leave a list of the elements of S in.
Shuffles(S) ==
    {q \in [1..Cardinality(S) -> S] : \A i, j \in DOMAIN q : q[i] = q[j] => i = j}

\* get_random_uids
Random(t) ==
    /\ InBody(t, "random")
    /\ \E q \in Shuffles(wi[Sess(t)]) :
          Answer(t, [status |-> "ok", uids |-> q])
    /\ UNCHANGED <<sessVars, mapVars>>

\* get_ingest_item_image_rep (get_data_preview_image).  Phase 1, lines
\* 390-392: the uid is looked up in the session's example data.  Phase 2, lines
\* 424-461: the saliency map of the uid's descriptor in the working index.
Preview(t) ==
    /\ InBody(t, "preview")
    /\ LET k == Sess(t) IN
       IF req[t].phase = 1
       THEN \E rq \in Args(t) :
               IF k \in DOMAIN exData
               THEN AnswerTo(t, rq, [status |-> IF rq.uid \in exData[k]
                                                THEN "ok" ELSE "fail"])
               ELSE AnswerTo(t, rq, Raise)
       ELSE Answer(t, IF resp[t] = NoResp THEN [status |-> "ok"] ELSE resp[t])
    /\ UNCHANGED <<sessVars, mapVars>>

\* The block "with ... as iqrs" is left: IqrSession.__exit__ releases the
\* lock, and the handler returns its answer, which frees the thread for the
\* next request.  A data preview whose example-data block is done goes for the
\* session again when saliency maps are on.
Release(t) ==
    /\ pc[t] = "exit"
    /\ sessOwner' = [k \in Keys |->
                        IF sessOwner[k] = t THEN NoThread ELSE sessOwner[k]]
    /\ got' = [got EXCEPT ![t] = NoSession]
    /\ IF req[t].op = "preview" /\ req[t].phase = 1
          /\ resp[t].status # "raise" /\ SaliencyDescrFlag
       THEN /\ pc' = [pc EXCEPT ![t] = "ctrl_wait"]
            /\ req' = [req EXCEPT ![t].phase = 2]
            /\ UNCHANGED resp
       ELSE /\ pc' = [pc EXCEPT ![t] = "idle"]
            /\ req' = [req EXCEPT ![t] = NoReq]
            /\ resp' = [resp EXCEPT ![t] = NoResp]
    /\ UNCHANGED nreq
    /\ UNCHANGED <<ctrlVars, sessVars, mapVars>>

Next ==
    \E t \in Threads :
        \/ Start(t)
        \/ CtrlAcquire(t)
        \/ CtrlLookup(t)
        \/ CtrlCreate(t)
        \/ CtrlWorkDir(t)
        \/ CtrlMaps(t)
        \/ CtrlReturn(t)
        \/ SessAcquire(t)
        \/ Info(t)
        \/ State(t)
        \/ Check(t)
        \/ Preview(t)
        \/ Ingest(t)
        \/ Initialize(t)
        \/ ExampleAdjudication(t)
        \/ IndexAdjudication(t)
        \/ Adjudicate(t)
        \/ Refine(t)
        \/ Ordered(t)
        \/ Reset(t)
        \/ Random(t)
        \/ Release(t)

Spec == Init /\ [][Next]_vars

\* One thread serving its requests one after another: the sequences of
\* operations on the sessions, without interleaving.
SeqStart(t) == StartRequest(t, MaxSeqRequests)

SeqNext ==
    \E t \in {"t1"} :
        \/ SeqStart(t)
        \/ CtrlAcquire(t)
        \/ CtrlLookup(t)
        \/ CtrlCreate(t)
        \/ CtrlWorkDir(t)
        \/ CtrlMaps(t)
        \/ CtrlReturn(t)
        \/ SessAcquire(t)
        \/ Info(t)
        \/ State(t)
        \/ Check(t)
        \/ Preview(t)
        \/ Ingest(t)
        \/ Initialize(t)
        \/ ExampleAdjudication(t)
        \/ IndexAdjudication(t)
        \/ Adjudicate(t)
        \/ Refine(t)
        \/ Ordered(t)
        \/ Reset(t)
        \/ Random(t)
        \/ Release(t)

SeqSpec == Init /\ [][SeqNext]_vars

\* The request threads under a finite load of requests of one client (one
\* sid, so that all of them contend for one session), each thread running on:
\* a step of a thread that stays possible is taken in the end (every core
\* operation terminates, and a thread blocked on a lock goes on once the lock
\* stays free).
LiveStart(t) == StartRequest(t, MaxLiveRequests) /\ req'[t].sid = "k1"

LiveNext ==
    \E t \in Threads :
        \/ LiveStart(t)
        \/ CtrlAcquire(t)
        \/ CtrlLookup(t)
        \/ CtrlCreate(t)
        \/ CtrlWorkDir(t)
        \/ CtrlMaps(t)
        \/ CtrlReturn(t)
        \/ SessAcquire(t)
        \/ Info(t)
        \/ State(t)
        \/ Check(t)
        \/ Preview(t)
        \/ Ingest(t)
        \/ Initialize(t)
        \/ ExampleAdjudication(t)
        \/ IndexAdjudication(t)
        \/ Adjudicate(t)
        \/ Refine(t)
        \/ Ordered(t)
        \/ Reset(t)
        \/ Random(t)
        \/ Release(t)

ThreadRuns(t) ==
    \/ CtrlAcquire(t) \/ CtrlLookup(t) \/ CtrlCreate(t) \/ CtrlWorkDir(t)
    \/ CtrlMaps(t) \/ CtrlReturn(t) \/ SessAcquire(t) \/ Info(t) \/ State(t)
    \/ Check(t) \/ Preview(t) \/ Ingest(t) \/ Initialize(t)
    \/ ExampleAdjudication(t) \/ IndexAdjudication(t) \/ Adjudicate(t)
    \/ Refine(t) \/ Ordered(t) \/ Reset(t) \/ Random(t) \/ Release(t)

LiveSpec ==
    Init /\ [][LiveNext]_vars /\ \A t \in Threads : WF_vars(ThreadRuns(t))

\* Two threads serving the requests of one client (one sid): every
\* interleaving of up to MaxClientRequests requests on one session.
ClientStart(t) == StartRequest(t, MaxClientRequests) /\ req'[t].sid = "k1"

ClientNext ==
    \E t \in Threads :
        \/ ClientStart(t)
        \/ CtrlAcquire(t)
        \/ CtrlLookup(t)
        \/ CtrlCreate(t)
        \/ CtrlWorkDir(t)
        \/ CtrlMaps(t)
        \/ CtrlReturn(t)
        \/ SessAcquire(t)
        \/ Info(t)
        \/ State(t)
        \/ Check(t)
        \/ Preview(t)
        \/ Ingest(t)
        \/ Initialize(t)
        \/ ExampleAdjudication(t)
        \/ IndexAdjudication(t)
        \/ Adjudicate(t)
        \/ Refine(t)
        \/ Ordered(t)
        \/ Reset(t)
        \/ Random(t)
        \/ Release(t)

ClientSpec == Init /\ [][ClientNext]_vars

\* ------------------------------------------------------------- properties

\* Thread t is inside a "with <session> as iqrs" block.
InBlock(t) == pc[t] \in {"cs", "exit"} /\ got[t] # NoSession

\* Thread t is inside the "with self._iqr_controller" block.
InController(t) ==
    pc[t] \in {"ctrl_check", "ctrl_create", "ctrl_workdir", "ctrl_maps",
               "ctrl_return"}

\* Thread t has just answered a request to handler op.
Answered(t, op) == pc[t] = "exit" /\ req[t].op = op /\ got[t] # NoSession

\* The body of handler op runs in this step, on thread t.
BodyStep(t, op) == pc[t] = "cs" /\ req[t].op = op /\ pc'[t] = "exit"

\* Any step of thread t other than taking a new request.
Step(t) ==
    \/ CtrlAcquire(t) \/ CtrlLookup(t) \/ CtrlCreate(t) \/ CtrlWorkDir(t)
    \/ CtrlMaps(t) \/ CtrlReturn(t) \/ SessAcquire(t) \/ Info(t) \/ State(t)
    \/ Check(t) \/ Preview(t) \/ Ingest(t) \/ Initialize(t)
    \/ ExampleAdjudication(t) \/ IndexAdjudication(t) \/ Adjudicate(t)
    \/ Refine(t) \/ Ordered(t) \/ Reset(t) \/ Random(t) \/ Release(t)

\* C1: in every state the positive and the negative identifiers of every
\* session are disjoint, and get_index_adjudication never answers is_pos and
\* is_neg both true.
C1_Disjoint ==
    /\ \A k \in Keys : pos[k] \cap neg[k] = {}
    /\ \A t \in Threads :
          Answered(t, "index_adj") => ~(resp[t].is_pos /\ resp[t].is_neg)

\* An uploaded positive example has since been adjudicated negative, and
\* get_index_adjudication reports it.
C1_Witness ==
    \E t \in Threads :
        /\ Answered(t, "index_adj")
        /\ Sess(t) \in DOMAIN exPos
        /\ req[t].uid \in exPos[Sess(t)]
        /\ resp[t].is_neg
        /\ ~resp[t].is_pos

\* C2: at most one IqrSession is ever constructed for a sid, and every caller
\* of get_current_iqr_session is handed that one session.
C2_OneSessionPerKey ==
    /\ \A k \in Keys : sessions[k] <= 1
    /\ \A t \in Threads :
          got[t] # NoSession => got[t] = [sid |-> req[t].sid, gen |-> 1]

\* The first two requests, both for the same sid and both in flight, hold the
\* same session.
C2_Witness ==
    \E t, u \in Threads :
        /\ t # u
        /\ nreq = 2
        /\ req[t].sid = req[u].sid
        /\ pc[t] = "exit"
        /\ pc[u] = "sess_wait"
        /\ got[t] = got[u]
        /\ got[t].gen = 1

\* C3: no thread holds the controller lock and a session lock together, and
\* no thread enters get_current_iqr_session while it holds a session lock.
C3_LocksNeverNested ==
    \A t \in Threads : \A k \in Keys :
        sessOwner[k] = t =>
            /\ ctrlOwner # t
            /\ pc[t] \notin {"ctrl_wait"}
            /\ ~InController(t)

\* One thread is inside a session's block while another is inside the
\* controller's.
C3_Witness ==
    \E t, u \in Threads : \E k \in Keys :
        /\ t # u
        /\ sessOwner[k] = t
        /\ ctrlOwner = u
        /\ pc[u] = "ctrl_return"

\* C4: at most one request is inside the block of a given session, and it
\* holds that session's lock.
C4_SessionSerialized ==
    \A t \in Threads :
        InBlock(t) =>
            /\ sessOwner[Sess(t)] = t
            /\ \A u \in Threads \ {t} : InBlock(u) => Sess(u) # Sess(t)

\* A refine is in progress on a session while another request for the same
\* session waits for the lock.
C4_Witness ==
    \E t, u \in Threads :
        /\ t # u
        /\ pc[t] = "cs"
        /\ req[t].op = "refine"
        /\ pc[u] = "sess_wait"
        /\ got[u] = got[t]

\* C5: while an initialize or a refine is in progress on one session, a
\* request for another sid is never held up: whatever its position, its next
\* step can be taken.
C5_OtherSessionNotBlocked ==
    \A t, u \in Threads :
        ( /\ t # u
          /\ pc[u] = "cs"
          /\ req[u].op \in {"initialize", "refine"}
          /\ pc[t] # "idle"
          /\ req[t].sid # req[u].sid )
        => ENABLED Step(t)

\* A request for another sid has got its session and been answered while the
\* initialize or refine is still in progress.
C5_Witness ==
    \E t, u \in Threads :
        /\ pc[u] = "cs"
        /\ req[u].op \in {"initialize", "refine"}
        /\ pc[t] = "exit"
        /\ got[t] # NoSession
        /\ req[t].sid # req[u].sid
        /\ resp[t].status = "ok"

\* Every identifier an adjudicate request names, in any of its four lists.
Named(rq) == rq.addPos \cup rq.addNeg \cup rq.remPos \cup rq.remNeg

\* C6: a successful adjudicate call that lists a positive identifier X in
\* add_neg (with or without X in remove_pos, and not in add_pos) leaves X
\* negative and not positive; and the same with positive and negative
\* exchanged.
C6_MovesInOneCall ==
    [][\A t \in Threads : \A X \in Ids :
          (BodyStep(t, "adjudicate") /\ resp'[t].status = "ok") =>
             LET k == Sess(t)
                 rq == req'[t]
             IN  /\ (X \in pos[k] /\ X \in rq.addNeg /\ X \notin rq.addPos)
                        => (X \in neg'[k] /\ X \notin pos'[k])
                 /\ (X \in neg[k] /\ X \in rq.addPos /\ X \notin rq.addNeg)
                        => (X \in pos'[k] /\ X \notin neg'[k])]_vars

\* The third request of the only thread is an adjudicate that lists X in
\* remove_pos and in add_neg; X, positive by upload until then, is negative.
C6_Witness ==
    \E t \in Threads : \E X \in Ids :
        /\ Answered(t, "adjudicate")
        /\ resp[t].status = "ok"
        /\ nreq = 3
        /\ X \in req[t].remPos
        /\ X \in req[t].addNeg
        /\ X \in neg[Sess(t)]
        /\ X \notin pos[Sess(t)]

\* C7: after a successful adjudicate call that lists X in add_pos and in
\* add_neg, X is negative and not positive.
C7_BothAddsEndNegative ==
    \A t \in Threads :
        (Answered(t, "adjudicate") /\ resp[t].status = "ok") =>
            \A X \in req[t].addPos \cap req[t].addNeg :
                X \in neg[Sess(t)] /\ X \notin pos[Sess(t)]

\* An adjudicate call with X in add_pos and in add_neg has been applied.
C7_Witness ==
    \E t \in Threads : \E X \in Ids :
        /\ Answered(t, "adjudicate")
        /\ resp[t].status = "ok"
        /\ X \in req[t].addPos \cap req[t].addNeg
        /\ X \in neg[Sess(t)]

\* C8: a successful adjudicate call that lists X both in the removal list and
\* in the addition list of the set X is in (and not in the addition list of the
\* other set) leaves X where it was; when the call lists nothing else, both
\* sets are as before.
C8_RemoveAndAddIsNoOp ==
    [][\A t \in Threads : \A X \in Ids :
          (BodyStep(t, "adjudicate") /\ resp'[t].status = "ok") =>
             LET k == Sess(t)
                 rq == req'[t]
                 onlyPos == rq.addNeg = {} /\ rq.remNeg = {}
                            /\ rq.addPos = {X} /\ rq.remPos = {X}
                 onlyNeg == rq.addPos = {} /\ rq.remPos = {}
                            /\ rq.addNeg = {X} /\ rq.remNeg = {X}
             IN  /\ (X \in pos[k] /\ X \in rq.remPos /\ X \in rq.addPos
                       /\ X \notin rq.addNeg)
                        => (X \in pos'[k] /\ X \notin neg'[k])
                 /\ (X \in neg[k] /\ X \in rq.remNeg /\ X \in rq.addNeg
                       /\ X \notin rq.addPos)
                        => (X \in neg'[k] /\ X \notin pos'[k])
                 /\ ((X \in pos[k] /\ onlyPos) \/ (X \in neg[k] /\ onlyNeg))
                        => (pos'[k] = pos[k] /\ neg'[k] = neg[k])]_vars

\* The third request of the only thread is an adjudicate with remove_pos = [X]
\* and add_pos = [X]; X, positive by upload until then, is still positive.
C8_Witness ==
    \E t \in Threads : \E X \in Ids :
        /\ Answered(t, "adjudicate")
        /\ resp[t].status = "ok"
        /\ nreq = 3
        /\ req[t].remPos = {X}
        /\ req[t].addPos = {X}
        /\ X \in pos[Sess(t)]

\* C9: no adjudicate call, successful or failed, changes a working index or a
\* stored result.
C9_AdjudicateKeepsIndex ==
    [][\A t \in Threads :
          BodyStep(t, "adjudicate") => (wi' = wi /\ results' = results)]_vars

\* An adjudicate call has changed the adjudication of a session that has a
\* working index and a stored result.
C9_Witness ==
    \E t \in Threads :
        /\ Answered(t, "adjudicate")
        /\ resp[t].status = "ok"
        /\ req[t].addNeg # {}
        /\ req[t].addNeg \subseteq neg[Sess(t)]
        /\ wi[Sess(t)] # {}
        /\ results[Sess(t)] # {}

\* C10: an adjudicate call naming an identifier the working index does not
\* hold answers with a failure result (success false and a message) and
\* leaves both adjudication sets as they were.
C10_NotFoundIsReported ==
    [][\A t \in Threads :
          (BodyStep(t, "adjudicate") /\ ~(Named(req'[t]) \subseteq wi[Sess(t)]))
             => /\ resp'[t].status = "fail"
                /\ pos' = pos
                /\ neg' = neg]_vars

\* The part of C10 the handler does keep: a call that cannot resolve an
\* identifier applies nothing.
UnresolvedAppliesNothing ==
    [][\A t \in Threads :
          (BodyStep(t, "adjudicate") /\ ~(Named(req'[t]) \subseteq wi[Sess(t)]))
             => /\ resp'[t].status = "raise"
                /\ pos' = pos
                /\ neg' = neg]_vars

C12_FullRebuild ==
    [][\A t \in Threads :
          (BodyStep(t, "initialize") /\ resp'[t].status = "ok") =>
             LET k == Sess(t) IN
             \A x \in Ids :
                x \in wi'[k] <=>
                   \E d \in pos[k] : x \in Neighbors(d, PosSeedNeighbors)]_vars

\* An initialize has succeeded and dropped an entry of the previous working
\* index: the result of the earlier refine still ranks it.
C12_Witness ==
    \E t \in Threads :
        /\ Answered(t, "initialize")
        /\ resp[t].status = "ok"
        /\ \E r \in results[Sess(t)] : r[1] \notin wi[Sess(t)]

\* C13: an initialize that does not succeed (and none succeeds without
\* positives) answers with a failure result and leaves the working index, both
\* adjudication sets and the stored result of every session as they were.
C13_FailedInitializeKeepsState ==
    [][\A t \in Threads :
          BodyStep(t, "initialize") =>
             /\ (pos[Sess(t)] = {} => resp'[t].status # "ok")
             /\ (resp'[t].status # "ok" =>
                    /\ resp'[t].status = "fail"
                    /\ pos' = pos
                    /\ neg' = neg
                    /\ wi' = wi
                    /\ results' = results)]_vars

\* An initialize has failed on a session that has positives and a working
\* index other than the one these positives seed: the old index is kept.
C13_Witness ==
    \E t \in Threads :
        /\ Answered(t, "initialize")
        /\ resp[t].status = "fail"
        /\ pos[Sess(t)] # {}
        /\ wi[Sess(t)] # {}
        /\ wi[Sess(t)] # SeededIndex(pos[Sess(t)])

\* C14: in every state, a session whose working index has been built holds in
\* it every positively adjudicated identifier that the descriptor store of the
\* corpus knows.
C14_PositivesInIndex ==
    \A k \in Keys :
        wi[k] # {} => (pos[k] \cap Corpus) \subseteq wi[k]

\* C15: a refine that does not succeed (and none succeeds without positives or
\* with an empty working index) answers with a failure result and leaves the
\* stored result, both adjudication sets and the working index of every
\* session as they were.
C15_FailedRefineKeepsState ==
    [][\A t \in Threads :
          BodyStep(t, "refine") =>
             /\ ((pos[Sess(t)] = {} \/ wi[Sess(t)] = {})
                    => resp'[t].status # "ok")
             /\ (resp'[t].status # "ok" =>
                    /\ resp'[t].status = "fail"
                    /\ results' = results
                    /\ pos' = pos
                    /\ neg' = neg
                    /\ wi' = wi)]_vars

\* A refine has failed for want of positives on a session that has a stored
\* result, which is still there.
C15_Witness ==
    \E t \in Threads :
        /\ Answered(t, "refine")
        /\ resp[t].status = "fail"
        /\ pos[Sess(t)] = {}
        /\ results[Sess(t)] # {}

\* The sequence s of <<identifier, probability>> pairs is in non-increasing
\* order of probability, equal probabilities in ascending identifier order.
Sorted(s) ==
    \A p, q \in DOMAIN s :
        p < q => \/ s[p][2] > s[q][2]
                 \/ s[p][2] = s[q][2] /\ IdRank(s[p][1]) < IdRank(s[q][1])

\* C16: the stored ordered result of every session lists each ranked pair
\* once, in non-increasing order of probability with equal probabilities in
\* ascending identifier order, and so does every answer of
\* get_ordered_results.
C16_ResultsSorted ==
    /\ \A k \in Keys :
          LET s == OrderedResults(results[k])
          IN  /\ Sorted(s)
              /\ Len(s) = Cardinality(results[k])
              /\ {s[p] : p \in DOMAIN s} = results[k]
    /\ \A t \in Threads :
          Answered(t, "ordered") => Sorted(resp[t].results)

\* get_ordered_results has answered with two entries of equal probability.
C16_Witness ==
    \E t \in Threads :
        /\ Answered(t, "ordered")
        /\ Len(resp[t].results) = 2
        /\ resp[t].results[1][2] = resp[t].results[2][2]
        /\ resp[t].results[1][1] = "a"

\* The entries of s at the positions p (counted from 0) with i <= p < j.
ClippedRange(s, i, j) ==
    LET lo == IF i < 0 THEN 0 ELSE i
        hi == IF j > Len(s) THEN Len(s) ELSE j
    IN  IF lo < hi THEN SubSeq(s, lo + 1, hi) ELSE <<>>

\* The position a slice bound x stands for in a sequence of length n when a
\* negative bound counts from the end.
FromEnd(x, n) == IF x < 0 THEN n + x ELSE x

\* C17 as stated: for all integer bounds, get_ordered_results answers with the
\* entries of the stored ordered result at the positions from i up to but
\* excluding j that exist (j omitted: up to the end).
C17_SliceIsClippedRange ==
    \A t \in Threads :
        Answered(t, "ordered") =>
            LET s == OrderedResults(results[Sess(t)])
                j == IF req[t].hasJ THEN req[t].j ELSE Len(s)
            IN  /\ resp[t].status = "ok"
                /\ resp[t].results = ClippedRange(s, req[t].i, j)

\* C17: get_ordered_results never fails and answers with the entries of the
\* stored ordered result at the positions from i up to but excluding j that
\* exist (j omitted: up to the end), a negative bound b standing for the
\* position length + b; the answer is empty when i is at or past the end and
\* when nothing has been ranked.
C17_SliceCountsNegativeFromEnd ==
    \A t \in Threads :
        Answered(t, "ordered") =>
            LET s == OrderedResults(results[Sess(t)])
                n == Len(s)
                j == IF req[t].hasJ THEN FromEnd(req[t].j, n) ELSE n
            IN  /\ resp[t].status = "ok"
                /\ resp[t].results = ClippedRange(s, FromEnd(req[t].i, n), j)
                /\ (req[t].i >= n => resp[t].results = <<>>)

\* A request with i = 1 and j = 3 on a result of two entries has been answered
\* with the second entry alone.
C17_Witness ==
    \E t \in Threads :
        /\ Answered(t, "ordered")
        /\ req[t].i = 1
        /\ req[t].hasJ
        /\ req[t].j = 3
        /\ Cardinality(results[Sess(t)]) = 2
        /\ Len(resp[t].results) = 1

C19_StateExport ==
    \A t \in Threads :
        (Answered(t, "state") /\ resp[t].status = "ok") =>
            LET k == Sess(t) IN
            /\ sessOwner[k] = t
            /\ resp[t].name = req[t].sid
            /\ \A v \in {Vector(d) : d \in Ids} :
                  /\ v \in resp[t].pos <=>
                        \E d \in exPos[k] \cup pos[k] : Vector(d) = v
                  /\ v \in resp[t].neg <=> \E d \in neg[k] : Vector(d) = v

\* A state export of a session whose uploaded example has been adjudicated
\* negative: its vector is exported as positive (by upload) and as negative.
C19_Witness ==
    \E t \in Threads :
        /\ Answered(t, "state")
        /\ resp[t].status = "ok"
        /\ \E d \in exPos[Sess(t)] : d \in neg[Sess(t)]
        /\ resp[t].pos \cap resp[t].neg # {}

\* C20: an ingest that answers with an input error leaves the example data
\* map, the example positive descriptor map and both adjudication sets as they
\* were; one that succeeds leaves the uploaded identifier in the example data,
\* in the example positive descriptors and positive, and not negative.
C20_IngestAllOrNothing ==
    [][\A t \in Threads :
          BodyStep(t, "ingest") =>
             LET k == Sess(t)
                 u == req'[t].uid
             IN  /\ (resp'[t].status = "input_error" =>
                        /\ exData' = exData
                        /\ exPos' = exPos
                        /\ pos' = pos
                        /\ neg' = neg)
                 /\ (resp'[t].status = "ok" =>
                        /\ u \in exData'[k]
                        /\ u \in exPos'[k]
                        /\ u \in pos'[k]
                        /\ u \notin neg'[k])]_vars

\* The part of C20 the handler does keep: an input error leaves the example
\* positive descriptors and the adjudication as they were, and adds nothing
\* but the upload to the example data; a success records the upload.
IngestKeepsAllButExampleData ==
    [][\A t \in Threads :
          BodyStep(t, "ingest") =>
             LET k == Sess(t)
                 u == req'[t].uid
             IN  /\ (resp'[t].status = "input_error" =>
                        /\ exData' = [exData EXCEPT ![k] = @ \cup {u}]
                        /\ exPos' = exPos
                        /\ pos' = pos
                        /\ neg' = neg)
                 /\ (resp'[t].status = "ok" =>
                        /\ u \in exData'[k]
                        /\ u \in exPos'[k]
                        /\ u \in pos'[k]
                        /\ u \notin neg'[k])]_vars

\* Thread t holds no lock.
HoldsNoLock(t) == ctrlOwner # t /\ \A k \in Keys : sessOwner[k] # t

\* C21: a thread whose request is over, however it ended, holds no lock; no
\* thread waits for a lock it holds; and under the finite load the time comes
\* when every request has been answered and no lock is held: no request waits
\* for ever, no lock is held for ever.
C21_LocksReleased ==
    /\ [](\A t \in Threads :
             /\ pc[t] = "idle" => HoldsNoLock(t)
             /\ pc[t] = "ctrl_wait" => HoldsNoLock(t)
             /\ pc[t] = "sess_wait" => HoldsNoLock(t))
    /\ <>[](/\ \A t \in Threads : pc[t] = "idle"
            /\ ctrlOwner = NoThread
            /\ \A k \in Keys : sessOwner[k] = NoThread)

\* A request that raised or returned early still holds the lock of its session
\* (it has not left the with block yet) while the other thread waits for it.
C21_Witness ==
    \E t, u \in Threads :
        /\ t # u
        /\ pc[t] = "exit"
        /\ resp[t].status \in {"raise", "input_error"}
        /\ got[t] # NoSession
        /\ sessOwner[Sess(t)] = t
        /\ pc[u] = "sess_wait"
        /\ got[u] = got[t]

\* C22: the working index of a session becomes non-empty only by a successful
\* initialize, and its stored result only by a successful refine on a
\* non-empty working index; a reset empties both; and while the working index
\* is empty (no successful initialize since the creation or the last reset)
\* the stored result is empty, session info reports initialized false and
\* index_size 0, the ordered results are empty and no refine succeeds.
C22_Lifecycle ==
    [][/\ \A k \in Keys :
            /\ (wi[k] = {} /\ wi'[k] # {}) =>
                  \E t \in Threads : /\ BodyStep(t, "initialize")
                                     /\ Sess(t) = k
                                     /\ resp'[t].status = "ok"
            /\ (results[k] = {} /\ results'[k] # {}) =>
                  \E t \in Threads : /\ BodyStep(t, "refine")
                                     /\ Sess(t) = k
                                     /\ resp'[t].status = "ok"
                                     /\ wi[k] # {}
            /\ (wi'[k] = {} => results'[k] = {})
       /\ \A t \in Threads :
            /\ BodyStep(t, "reset") =>
                  (wi'[Sess(t)] = {} /\ results'[Sess(t)] = {})
            /\ (BodyStep(t, "refine") /\ wi[Sess(t)] = {}) =>
                  resp'[t].status # "ok"
            /\ (BodyStep(t, "ordered") /\ wi[Sess(t)] = {}) =>
                  resp'[t].results = <<>>
            /\ (BodyStep(t, "info") /\ wi[Sess(t)] = {}
                  /\ resp'[t].status = "ok") =>
                  (~resp'[t].initialized /\ resp'[t].index_size = 0)]_vars

\* A refine has failed on a session that has positives but no working index
\* yet.
C22_Witness ==
    \E t \in Threads :
        /\ Answered(t, "refine")
        /\ resp[t].status = "fail"
        /\ pos[Sess(t)] # {}
        /\ wi[Sess(t)] = {}

\* The elements of the sequence q.
Range(q) == {q[p] : p \in DOMAIN q}

C24_RandomListsUploads ==
    \A t \in Threads :
        (Answered(t, "random") /\ Sess(t) \in DOMAIN exData) =>
            exData[Sess(t)] \subseteq Range(resp[t].uids)

\* C25: in every state, a non-empty stored result of a session ranks exactly
\* the identifiers of the session's working index, each once.
C25_ResultsCoverIndex ==
    \A k \in Keys :
        results[k] # {} =>
            /\ {r[1] : r \in results[k]} = wi[k]
            /\ Cardinality(results[k]) = Cardinality(wi[k])

\* The part of C25 that does hold: a successful refine stores a result that
\* ranks exactly the identifiers of the working index, each once, and until
\* the next initialize or reset the two stay in step.
RefineRanksWholeIndex ==
    [][\A k \in Keys :
          LET covers == /\ {r[1] : r \in results'[k]} = wi'[k]
                        /\ Cardinality(results'[k]) = Cardinality(wi'[k])
          IN  /\ (\E t \in Threads : /\ BodyStep(t, "refine")
                                     /\ Sess(t) = k
                                     /\ resp'[t].status = "ok") => covers
              /\ (/\ C25_ResultsCoverIndex
                  /\ results'[k] # {}
                  /\ ~\E t \in Threads : BodyStep(t, "initialize")) => covers]_vars

\* C26: whenever no thread holds the controller's lock, every session
\* registered in the controller has its entry in the work directory map, in
\* the example data map and in the example positive descriptor map; and no
\* handler fails on a missing entry.
C26_MapsPresent ==
    /\ ctrlOwner = NoThread =>
          \A k \in Keys :
              sessions[k] # 0 => /\ k \in workDirs
                                 /\ k \in DOMAIN exData
                                 /\ k \in DOMAIN exPos
    /\ \A t \in Threads :
          (Answered(t, "info") \/ Answered(t, "state")
             \/ Answered(t, "example_adj")) => resp[t].status # "raise"

\* The key the step of thread t is taken for.
KeyOf(t) == IF pc[t] = "idle" THEN req'[t].sid ELSE req[t].sid

\* C27: a step taken for key A leaves the adjudication sets, the working
\* index, the stored result, the registration, the lock and the example maps
\* of every other key B as they were; and the session a request works on is
\* the one whose identifier is the request's own key.
C27_SessionsIsolated ==
    [][\A t \in Threads : \A B \in Keys :
          (pc'[t] # pc[t] /\ KeyOf(t) # B) =>
             /\ pos'[B] = pos[B]
             /\ neg'[B] = neg[B]
             /\ wi'[B] = wi[B]
             /\ results'[B] = results[B]
             /\ sessions'[B] = sessions[B]
             /\ sessOwner'[B] = sessOwner[B]
             /\ (B \in workDirs') = (B \in workDirs)
             /\ (B \in DOMAIN exData') = (B \in DOMAIN exData)
             /\ (B \in DOMAIN exData => exData'[B] = exData[B])
             /\ (B \in DOMAIN exPos') = (B \in DOMAIN exPos)
             /\ (B \in DOMAIN exPos => exPos'[B] = exPos[B])
             /\ (got'[t] # NoSession => got'[t].sid = KeyOf(t))]_vars

\* A reset for key k2 has completed while the session of k1 keeps its upload,
\* its positives and its working index.
C27_Witness ==
    \E t \in Threads :
        /\ Answered(t, "reset")
        /\ resp[t].status = "ok"
        /\ req[t].sid = "k2"
        /\ pos["k1"] # {}
        /\ wi["k1"] # {}
        /\ "k1" \in DOMAIN exData
        /\ exData["k1"] # {}

====
